---- MODULE Spec2Model ----
(***************************************************************************)
(* A model of the commit log of src/src: Store (store.rs), Index           *)
(* (index.rs), Segment (segment.rs) and Log (commit_log.rs).               *)
(*                                                                         *)
(* Files are modelled byte for byte.  A directory maps a base offset N to  *)
(* the pair of files N.store / N.index; the pair is an inode (an entry of  *)
(* `files`), so that a segment keeps reading and writing its files after   *)
(* they were unlinked, and two segments opened on the same base share them.*)
(* Byte positions are 0-based as in the code; sequences are 1-based.       *)
(***************************************************************************)
EXTENDS Integers, Sequences, FiniteSets, TLC

(***************************************************************************)
(* Bounds of the model.                                                    *)
(***************************************************************************)
MaxAppends == 3
MaxNewSegments == 2
MaxTruncates == 1
MaxReopens == 1
MaxOffsetArg == 2
\* the handler tasks of the server that run at once, the RPCs they start in
\* all, the responses the client of a stream takes from its channel
NumTasks == 2
MaxRequests == 2
MaxReceived == 2
\* the calls made on a Store or an Index used on its own
MaxCalls == 3
MaxMessages == 2

(***************************************************************************)
(* Program constants.                                                      *)
(***************************************************************************)
OFFSET_WIDTH == 4
POSITION_WIDTH == 8
ENTRY_WIDTH == OFFSET_WIDTH + POSITION_WIDTH
LEN_WIDTH == 8

\* Index::last_offset() returning None
None == -1

(***************************************************************************)
(* Inputs: the payloads handed to append, and the configurations a Log is  *)
(* opened with (initial_offset, max_store_bytes_per_segment,               *)
(* max_index_bytes_per_segment).  The caps are scaled down so that a       *)
(* segment is maxed after two or three records: by its store (24), by its  *)
(* index (24 = two entries), and with an index cap that is no multiple of  *)
(* ENTRY_WIDTH (30).                                                       *)
(***************************************************************************)
Values == { <<>>, <<1, 2, 3>> }

Configs ==
  { [initial_offset |-> 0, max_store_bytes_per_segment |-> 24, max_index_bytes_per_segment |-> 48],
    [initial_offset |-> 1, max_store_bytes_per_segment |-> 60, max_index_bytes_per_segment |-> 24],
    [initial_offset |-> 1, max_store_bytes_per_segment |-> 60, max_index_bytes_per_segment |-> 30] }

(***************************************************************************)
(* Bytes.                                                                  *)
(***************************************************************************)
\* Every number of a bounded run is below 256^3; a field whose higher bytes
\* are not all zero (bytes that are no entry) reads as Saturated, which is
\* beyond every file of the model like the number it stands for.
Saturated == 256 * 256 * 256

\* u32::to_be_bytes / u64::to_be_bytes / usize::to_be_bytes: w bytes, most significant first
RECURSIVE to_be_bytes(_, _)
to_be_bytes(n, w) ==
  IF w = 0 THEN <<>> ELSE Append(to_be_bytes(n \div 256, w - 1), n % 256)

RECURSIVE Horner(_, _)
Horner(s, acc) == IF s = <<>> THEN acc ELSE Horner(Tail(s), acc * 256 + Head(s))

\* u32::from_be_bytes / u64::from_be_bytes
from_be_bytes(s) ==
  IF \E i \in 1..(Len(s) - 3) : s[i] # 0 THEN Saturated
  ELSE Horner(s, 0)

\* the bytes of s at the 0-based positions from .. to-1
Slice(s, from, to) == SubSeq(s, from + 1, to)

\* s with the bytes at the 0-based positions at .. at+Len(b)-1 replaced by b
WriteAt(s, at, b) ==
  [i \in 1..Len(s) |-> IF i > at /\ i <= at + Len(b) THEN b[i - at] ELSE s[i]]

\* File::set_len: truncate, or extend with zeros
set_len(s, n) ==
  IF n <= Len(s) THEN SubSeq(s, 1, n)
  ELSE s \o [i \in 1..(n - Len(s)) |-> 0]

(***************************************************************************)
(* Results of the operations.                                              *)
(***************************************************************************)
Ok(offset, value) == [kind |-> "Ok", err |-> "", offset |-> offset, value |-> value]
Err(e, offset) == [kind |-> "Err", err |-> e, offset |-> offset, value |-> <<>>]
Panic == [kind |-> "Panic", err |-> "", offset |-> 0, value |-> <<>>]

(***************************************************************************)
(* api::v1::Record { bytes value = 1; uint64 offset = 2; } in the protobuf *)
(* encoding prost generates: a field that has its default value is not     *)
(* written; lengths, offsets and bytes stay below 128, one varint byte.    *)
(***************************************************************************)
TagValue == 10
TagOffset == 16

Record_encode(offset, value) ==
  (IF value = <<>> THEN <<>> ELSE <<TagValue, Len(value)>> \o value)
    \o (IF offset = 0 THEN <<>> ELSE <<TagOffset, offset>>)

RECURSIVE DecodeFields(_, _)
DecodeFields(bytes, rec) ==
  IF bytes = <<>> THEN rec
  ELSE IF Len(bytes) < 2 THEN Err("Decode", 0)
  ELSE IF bytes[1] = TagValue
    THEN IF 2 + bytes[2] > Len(bytes) THEN Err("Decode", 0)
         ELSE DecodeFields(Slice(bytes, 2 + bytes[2], Len(bytes)),
                           [rec EXCEPT !.value = Slice(bytes, 2, 2 + bytes[2])])
  ELSE IF bytes[1] = TagOffset /\ bytes[2] < 128
    THEN DecodeFields(Slice(bytes, 2, Len(bytes)), [rec EXCEPT !.offset = bytes[2]])
  ELSE Err("Decode", 0)

Record_decode(bytes) == DecodeFields(bytes, Ok(0, <<>>))

(***************************************************************************)
(* Store (store.rs).  The store of a segment is the fields file_size and   *)
(* writer (the bytes the BufWriter holds, not yet written to the file) of  *)
(* the segment record, and the bytes files[fid].store of its file.  The    *)
(* file is opened with append(true): a flush adds the buffered bytes at    *)
(* the end of the file.  The records of a bounded run stay far below the   *)
(* BufWriter's capacity, so the buffer is written only by flush().         *)
(***************************************************************************)
Store_new(fid, store_bytes) ==
  [fid |-> fid, file_size |-> Len(store_bytes), writer |-> <<>>]

\* an append that returns the position after the entry it wrote
Store_appendAtEnd(seg, buffer) ==
  [seg |-> [seg EXCEPT !.writer = @ \o to_be_bytes(Len(buffer), LEN_WIDTH) \o buffer,
                       !.file_size = @ + LEN_WIDTH + Len(buffer)],
   appended_at |-> seg.file_size + LEN_WIDTH + Len(buffer),
   bytes_written |-> LEN_WIDTH + Len(buffer)]

Store_append(seg, buffer) ==
  [seg |-> [seg EXCEPT !.writer = @ \o to_be_bytes(Len(buffer), LEN_WIDTH) \o buffer,
                       !.file_size = @ + LEN_WIDTH + Len(buffer)],
   appended_at |-> seg.file_size,
   bytes_written |-> LEN_WIDTH + Len(buffer)]

\* a flush that leaves the buffered bytes in the buffer
Store_flushNothing(fs, seg) == fs

\* writer.flush(): the bytes of the file once the buffer is written
Store_flush(fs, seg) == [fs EXCEPT ![seg.fid].store = @ \o seg.writer]

\* Store::read on the flushed file: read_exact_at fails on a short read
Store_read(store_bytes, position) ==
  IF position + LEN_WIDTH > Len(store_bytes) THEN Err("Io", 0)
  ELSE LET entry_length == from_be_bytes(Slice(store_bytes, position, position + LEN_WIDTH))
       IN IF position + LEN_WIDTH + entry_length > Len(store_bytes) THEN Err("Io", 0)
          ELSE Ok(0, Slice(store_bytes, position + LEN_WIDTH,
                           position + LEN_WIDTH + entry_length))

\* Store::read_at on the flushed file with a buffer of n bytes
Store_read_at(store_bytes, n, position) ==
  IF position + LEN_WIDTH + n > Len(store_bytes) THEN Err("Io", 0)
  ELSE Ok(0, Slice(store_bytes, position + LEN_WIDTH, position + LEN_WIDTH + n))

Store_size(seg) == seg.file_size

(***************************************************************************)
(* Index (index.rs).  The index of a segment is the fields size and        *)
(* mmap_len of the segment record; the mapping is shared with the file, so *)
(* the mapped bytes are files[fid].index.  An access to a mapped byte      *)
(* beyond the end of the file (the file was shortened through another      *)
(* handle) stops the process: the result "Fault".                          *)
(***************************************************************************)
\* MmapMut::map_mut: a mapping of length zero is refused (mmap(2): EINVAL)
MapMutOk(len) == len > 0

Index_len(seg) == seg.size \div ENTRY_WIDTH

Index_is_empty(seg) == seg.size = 0

Index_is_full(seg) == seg.mmap_len < seg.size + ENTRY_WIDTH

Index_write(mm, seg, offset, position) ==
  IF Index_is_full(seg) THEN [kind |-> "IndexIsFull", mm |-> mm, seg |-> seg]
  ELSE IF seg.size + ENTRY_WIDTH > Len(mm) THEN [kind |-> "Fault", mm |-> mm, seg |-> seg]
  ELSE [kind |-> "Ok",
        mm |-> WriteAt(WriteAt(mm, seg.size, to_be_bytes(offset, OFFSET_WIDTH)),
                       seg.size + OFFSET_WIDTH, to_be_bytes(position, POSITION_WIDTH)),
        seg |-> [seg EXCEPT !.size = @ + ENTRY_WIDTH]]

Index_read(mm, seg, offset) ==
  IF Index_is_empty(seg) \/ offset >= Index_len(seg) THEN Err("IndexOffsetOutOfBounds", offset)
  ELSE LET position_starts_at == offset * ENTRY_WIDTH + OFFSET_WIDTH
       IN IF position_starts_at + POSITION_WIDTH > Len(mm) THEN [Panic EXCEPT !.kind = "Fault"]
          ELSE Ok(from_be_bytes(Slice(mm, position_starts_at,
                                      position_starts_at + POSITION_WIDTH)), <<>>)

\* Index::last_offset: None when the index is empty, else the relative
\* offset field of the last of the Index_len entries
Index_last_offset(mm, size) ==
  IF size = 0 THEN None
  ELSE LET at == (size \div ENTRY_WIDTH - 1) * ENTRY_WIDTH
       IN from_be_bytes(Slice(mm, at, at + OFFSET_WIDTH))

\* a close that leaves the file at the length of the mapping
Index_closeUncut(fs, seg) == fs

\* Index::close: the file is cut back to `size` bytes
Index_close(fs, seg) == [fs EXCEPT ![seg.fid].index = set_len(@, seg.size)]

Index_size(seg) == seg.size

(***************************************************************************)
(* Segment (segment.rs).  A file system is [dir, files]: dir[N] is the     *)
(* inode of N.store / N.index for the N that have files, files the inodes. *)
(***************************************************************************)
EmptyFile == [store |-> <<>>, index |-> <<>>]

\* Index::new: size is the length of the file before it is extended
Index_new(fs, fid, max_index_bytes) ==
  [size |-> Len(fs[fid].index),
   fs |-> [fs EXCEPT ![fid].index = set_len(@, max_index_bytes)],
   ok |-> MapMutOk(max_index_bytes)]

\* Segment::new: [ok, dir, files, seg]; the files are created and the index
\* file resized also when the mapping then fails
Segment_new(dir, fs, base_offset, max_index_bytes, max_store_bytes) ==
  LET exists == base_offset \in DOMAIN dir
      fid == IF exists THEN dir[base_offset] ELSE Len(fs) + 1
      fs1 == IF exists THEN fs ELSE Append(fs, EmptyFile)
      store == Store_new(fid, fs1[fid].store)
      index == Index_new(fs1, fid, max_index_bytes)
      last_offset == Index_last_offset(index.fs[fid].index, index.size)
  IN [ok |-> index.ok,
      dir |-> [n \in DOMAIN dir \cup {base_offset} |-> IF n = base_offset THEN fid ELSE dir[n]],
      files |-> index.fs,
      seg |-> [base_offset |-> base_offset,
               next_offset |-> IF ~index.ok \/ last_offset = None THEN base_offset
                               ELSE base_offset + last_offset + 1,
               fid |-> fid,
               size |-> index.size,
               mmap_len |-> max_index_bytes,
               file_size |-> store.file_size,
               writer |-> store.writer,
               max_index_bytes |-> max_index_bytes,
               max_store_bytes |-> max_store_bytes]]

\* a Segment::append that writes the absolute offset into the index
Segment_appendAbsolute(fs, seg, value) ==
  LET offset == seg.next_offset
      buffer == Record_encode(offset, value)
      append_output == Store_append(seg, buffer)
      w == Index_write(fs[seg.fid].index, append_output.seg,
                       seg.next_offset, append_output.appended_at)
  IN [kind |-> w.kind,
      offset |-> offset,
      fs |-> [fs EXCEPT ![seg.fid].index = w.mm],
      seg |-> IF w.kind = "Ok" THEN [w.seg EXCEPT !.next_offset = @ + 1] ELSE w.seg]

\* Segment::append: [kind, offset, fs, seg]; the store is written before the
\* index, and stays written when the index write fails
Segment_append(fs, seg, value) ==
  LET offset == seg.next_offset
      buffer == Record_encode(offset, value)
      append_output == Store_append(seg, buffer)
      w == Index_write(fs[seg.fid].index, append_output.seg,
                       seg.next_offset - seg.base_offset, append_output.appended_at)
  IN [kind |-> w.kind,
      offset |-> offset,
      fs |-> [fs EXCEPT ![seg.fid].index = w.mm],
      seg |-> IF w.kind = "Ok" THEN [w.seg EXCEPT !.next_offset = @ + 1] ELSE w.seg]

\* Segment::read: the result of the read (Store::read flushes the writer first)
Segment_read(fs, seg, offset) ==
  LET position == Index_read(fs[seg.fid].index, seg, offset - seg.base_offset)
      bytes == Store_read(Store_flush(fs, seg)[seg.fid].store, position.offset)
  IN IF position.kind # "Ok" THEN position
     ELSE IF bytes.kind # "Ok" THEN bytes
     ELSE Record_decode(bytes.value)

Segment_is_maxed(seg) ==
  Store_size(seg) >= seg.max_store_bytes \/ Index_size(seg) >= seg.max_index_bytes

\* Segment::close: Index::close, then Store::close
Segment_close(fs, seg) == Store_flush(Index_close(fs, seg), seg)

(***************************************************************************)
(* Log (commit_log.rs).                                                    *)
(*   cfg            the Config the Log is opened with                      *)
(*   dir, files     the log directory                                      *)
(*   status         "open": a Log value exists; "closed": it was closed or *)
(*                  the process stopped, and Log::new may run again        *)
(*   segments, active_segment   the fields of the Log                      *)
(*   last           the last operation that is no read, its argument and   *)
(*                  its result, with the segments it started from          *)
(*   hist           the appends of this Log instance with their results    *)
(*   before         what the Log answered when it was last closed or the   *)
(*                  process last stopped: how it ended, lowest_offset,     *)
(*                  highest_offset and the result of read for every offset *)
(*   nAppends, nNewSegments, nTruncates, nReopens   operation counts       *)
(* and the LogServer (server.rs) that shares the Log between its handlers: *)
(*   lock           the tokio RwLock around the Log: the task that holds   *)
(*                  the write guard (0: none), the tasks that hold a read  *)
(*                  guard                                                  *)
(*   task           the handler tasks: the RPC each serves, its position   *)
(*                  in it, its arguments, the result of the Log operation  *)
(*                  and the status it answers with                         *)
(*   chan           the responses in the channel of consume_stream         *)
(*   received       the responses the client took from the channel         *)
(*   nRequests      the number of RPCs started                             *)
(* and a Store or an Index used on its own, on the file files[1]:          *)
(*   store          the Store: file_size and the bytes in its BufWriter    *)
(*   index          the Index: size and the length of its mapping          *)
(*   calls          the calls made on the file since it was created, with  *)
(*                  what they returned                                     *)
(*   got            the last read, with what it returned                   *)
(***************************************************************************)
VARIABLES cfg, dir, files, status, segments, active_segment, last, hist, before,
          nAppends, nNewSegments, nTruncates, nReopens,
          lock, task, chan, received, nRequests,
          store, index, calls, got

vars == <<cfg, dir, files, status, segments, active_segment, last, hist, before,
          nAppends, nNewSegments, nTruncates, nReopens,
          lock, task, chan, received, nRequests,
          store, index, calls, got>>

\* the variables of the Log, and those of the LogServer
log_vars == <<cfg, dir, files, status, segments, active_segment, last, hist, before,
              nAppends, nNewSegments, nTruncates, nReopens>>

server_vars == <<lock, task, chan, received, nRequests>>

\* the variables of a Store or an Index used on its own
unit_vars == <<store, index, calls, got>>

Summary(segs) ==
  [i \in 1..Len(segs) |-> [base_offset |-> segs[i].base_offset,
                           next_offset |-> segs[i].next_offset,
                           fid |-> segs[i].fid,
                           maxed |-> Segment_is_maxed(segs[i])]]

Op(op, arg, value, res, pre) ==
  [op |-> op, arg |-> arg, value |-> value, res |-> res, pre |-> Summary(pre)]

RECURSIVE SortedSeq(_)
SortedSeq(S) ==
  IF S = {} THEN <<>>
  ELSE LET m == CHOOSE x \in S : \A y \in S : x <= y
       IN <<m>> \o SortedSeq(S \ {m})

\* Log::read_segments_from_disk: a segment per N.store, in ascending order of N
RECURSIVE read_segments_from_disk(_, _, _, _, _)
read_segments_from_disk(d, fs, offsets, segs, config) ==
  IF offsets = <<>> THEN [ok |-> TRUE, dir |-> d, files |-> fs, segments |-> segs]
  ELSE CHOOSE found \in
         { IF ~r.ok THEN [ok |-> FALSE, dir |-> r.dir, files |-> r.files, segments |-> <<>>]
           ELSE read_segments_from_disk(r.dir, r.files, Tail(offsets),
                                        Append(segs, r.seg), config)
           : r \in { Segment_new(d, fs, Head(offsets), config.max_index_bytes_per_segment,
                                 config.max_store_bytes_per_segment) } } : TRUE

\* Log::new: [ok, dir, files, segments, active_segment]
\* Log::new on a directory without segments: the first segment, at initial_offset
FirstSegment(found, config) ==
  CHOOSE r \in
    { [ok |-> first.ok, dir |-> first.dir, files |-> first.files,
       segments |-> IF first.ok THEN <<first.seg>> ELSE <<>>]
      : first \in { Segment_new(found.dir, found.files, config.initial_offset,
                                config.max_index_bytes_per_segment,
                                config.max_store_bytes_per_segment) } } : TRUE

Log_new(d, fs, config) ==
  CHOOSE log \in
    { [ok |-> r.ok, dir |-> r.dir, files |-> r.files, segments |-> r.segments,
       active_segment |-> Len(r.segments) - 1]
      : r \in { IF found.ok /\ found.segments = <<>> THEN FirstSegment(found, config)
                ELSE found
                : found \in { read_segments_from_disk(d, fs, SortedSeq(DOMAIN d),
                                                      <<>>, config) } } } : TRUE

\* 1-based place of the first segment whose range contains offset, 0 if none
FindSegment(segs, offset) ==
  LET I == {i \in 1..Len(segs) :
              segs[i].base_offset <= offset /\ offset < segs[i].next_offset}
  IN IF I = {} THEN 0 ELSE CHOOSE i \in I : \A j \in I : i <= j

\* the result of Log::read(offset)
ReadResult(fs, segs, offset) ==
  LET i == FindSegment(segs, offset)
  IN IF i = 0 THEN Err("OffsetOutOfBounds", offset)
     ELSE Segment_read(fs, segs[i], offset)

\* Log::lowest_offset / Log::highest_offset
lowest_offset(segs) == segs[1].base_offset

highest_offset(segs) == segs[Len(segs)].next_offset

\* the offsets read: every offset a segment of the bounded run can hold, and one more
ReadArgs == 0..(MaxOffsetArg + MaxAppends + 2)

\* what the Log answers at the moment it ends
Snapshot(how, fs, segs) ==
  [how |-> how,
   lowest |-> lowest_offset(segs),
   highest |-> highest_offset(segs),
   reads |-> [o \in ReadArgs |-> ReadResult(fs, segs, o)]]

EmptyDir == [n \in {} |-> 0]

Tasks == 1..NumTasks

\* a task that serves no RPC; requested_at is the highest offset of the Log
\* when the request of the task arrived, sent the values of the requests
\* the task took from the request stream of produce_stream
IdleTask == [pc |-> "idle", rpc |-> "none", value |-> <<>>, offset |-> 0,
             requested_at |-> 0, appended_at |-> 0, res |-> Ok(0, <<>>),
             status |-> "none", sent |-> <<>>]

\* LogServer::new: the Log behind a lock nobody holds
LogServer_new ==
  /\ lock = [writer |-> 0, readers |-> {}]
  /\ task = [t \in Tasks |-> IdleTask]
  /\ chan = [t \in Tasks |-> <<>>]
  /\ received = [t \in Tasks |-> <<>>]
  /\ nRequests = 0

\* no Store and no Index is used on its own
NoStore == [fid |-> 0, file_size |-> 0, writer |-> <<>>]

NoIndex == [fid |-> 0, size |-> 0, mmap_len |-> 0, is_open |-> FALSE]

NoRead == [op |-> "none", arg |-> 0, len |-> 0, buffered |-> 0, res |-> Ok(0, <<>>)]

NoUnit ==
  /\ store = NoStore
  /\ index = NoIndex
  /\ calls = <<>>
  /\ got = NoRead

Init ==
  /\ cfg \in Configs
  /\ \E log \in {Log_new(EmptyDir, <<>>, cfg)} :
        /\ dir = log.dir
        /\ files = log.files
        /\ segments = log.segments
        /\ active_segment = log.active_segment
  /\ status = "open"
  /\ last = Op("new", 0, <<>>, Ok(0, <<>>), <<>>)
  /\ hist = <<>>
  /\ before = [how |-> "none", lowest |-> 0, highest |-> 0,
               reads |-> [o \in ReadArgs |-> Err("OffsetOutOfBounds", o)]]
  /\ nAppends = 0
  /\ nNewSegments = 0
  /\ nTruncates = 0
  /\ nReopens = 0
  /\ LogServer_new
  /\ NoUnit

\* the process stops on a fault: the Log is gone, buffered store bytes are lost
Stopped == /\ status' = "closed"
           /\ segments' = <<>>
           /\ active_segment' = 0
           /\ before' = Snapshot("fault", files, segments)

(***************************************************************************)
(* Log::append.  The result is the error of Segment::append, or the error  *)
(* of the Segment::new of the rollover, or the offset.                     *)
(***************************************************************************)
\* the config Log::append gives the segment it creates when the active one is maxed
RolloverConfig(config) ==
  [max_index_bytes |-> 0, max_store_bytes |-> 0]

Log_append(value) ==
  /\ status = "open"
  /\ nAppends < MaxAppends
  /\ nAppends' = nAppends + 1
  /\ UNCHANGED <<cfg, nNewSegments, nTruncates, nReopens>>
  /\ IF active_segment >= Len(segments)
     THEN \* self.segments[self.active_segment] panics, nothing was changed
          /\ last' = Op("append", 0, value, Panic, segments)
          /\ hist' = Append(hist, [value |-> value, res |-> Panic])
          /\ UNCHANGED <<dir, files, status, segments, active_segment, before>>
     ELSE \E a \in {Segment_append(files, segments[active_segment + 1], value)} :
          \E n \in {Segment_new(dir, a.fs, a.offset + 1, RolloverConfig(cfg).max_index_bytes,
                                RolloverConfig(cfg).max_store_bytes)} :
          LET segs1 == [segments EXCEPT ![active_segment + 1] = a.seg]
              res == IF a.kind = "Fault" THEN [Panic EXCEPT !.kind = "Fault"]
                     ELSE IF a.kind = "IndexIsFull" THEN Err("IndexIsFull", 0)
                     ELSE IF Segment_is_maxed(a.seg) /\ ~n.ok THEN Err("Io", 0)
                     ELSE Ok(a.offset, <<>>)
          IN /\ last' = Op("append", 0, value, res, segments)
             /\ hist' = Append(hist, [value |-> value, res |-> res])
             /\ IF a.kind = "Fault"
                THEN Stopped /\ UNCHANGED <<dir, files>>
                ELSE IF a.kind = "IndexIsFull"
                THEN /\ segments' = segs1
                     /\ files' = a.fs
                     /\ UNCHANGED <<dir, status, active_segment, before>>
                ELSE IF Segment_is_maxed(a.seg)
                THEN /\ dir' = n.dir
                     /\ files' = n.files
                     /\ segments' = IF n.ok THEN Append(segs1, n.seg) ELSE segs1
                     /\ active_segment' = IF n.ok THEN active_segment + 1 ELSE active_segment
                     /\ UNCHANGED <<status, before>>
                ELSE /\ segments' = segs1
                     /\ files' = a.fs
                     /\ UNCHANGED <<dir, status, active_segment, before>>

(***************************************************************************)
(* Log::read.                                                              *)
(***************************************************************************)
\* a Log::read whose flush counts the bytes it writes to the file once more
\* in the size of the store
Log_readCounting(offset) ==
  /\ status = "open"
  /\ LET i == FindSegment(segments, offset)
         position == Index_read(files[segments[i].fid].index, segments[i],
                                offset - segments[i].base_offset)
     IN IF i = 0 \/ position.kind = "Err"
        THEN UNCHANGED <<files, status, segments, active_segment, before>>
        ELSE IF position.kind = "Fault"
        THEN Stopped /\ UNCHANGED files
        ELSE /\ files' = Store_flush(files, segments[i])
             /\ segments' = [segments EXCEPT ![i].writer = <<>>,
                                             ![i].file_size = @ + Len(segments[i].writer)]
             /\ UNCHANGED <<status, active_segment, before>>
  /\ UNCHANGED <<cfg, dir, last, hist, nAppends, nNewSegments, nTruncates, nReopens>>

\* Log::read changes the Log only through Store::read, which writes the
\* buffer of the segment it reads to the file; Store::read is reached when a
\* segment contains the offset and Index::read succeeded.  What the read
\* returns is ReadResult of the state it starts from.
Log_read(offset) ==
  /\ status = "open"
  /\ LET i == FindSegment(segments, offset)
         position == Index_read(files[segments[i].fid].index, segments[i],
                                offset - segments[i].base_offset)
     IN IF i = 0 \/ position.kind = "Err"
        THEN UNCHANGED <<files, status, segments, active_segment, before>>
        ELSE IF position.kind = "Fault"
        THEN Stopped /\ UNCHANGED files
        ELSE /\ files' = Store_flush(files, segments[i])
             /\ segments' = [segments EXCEPT ![i].writer = <<>>]
             /\ UNCHANGED <<status, active_segment, before>>
  /\ UNCHANGED <<cfg, dir, last, hist, nAppends, nNewSegments, nTruncates, nReopens>>

(***************************************************************************)
(* Log::new_segment.                                                       *)
(***************************************************************************)
\* the base offset Log::new_segment(offset) gives the new segment
NewSegmentBase(config, offset) == config.initial_offset + offset

Log_new_segment(offset) ==
  /\ status = "open"
  /\ nNewSegments < MaxNewSegments
  /\ nNewSegments' = nNewSegments + 1
  /\ \E n \in {Segment_new(dir, files, NewSegmentBase(cfg, offset),
                              cfg.max_index_bytes_per_segment,
                              cfg.max_store_bytes_per_segment)} :
        /\ dir' = n.dir
        /\ files' = n.files
        /\ segments' = IF n.ok THEN Append(segments, n.seg) ELSE segments
        /\ active_segment' = IF n.ok THEN Len(segments') - 1 ELSE active_segment
        /\ last' = Op("new_segment", offset, <<>>,
                      IF n.ok THEN Ok(0, <<>>) ELSE Err("Io", 0), segments)
  /\ UNCHANGED <<cfg, status, hist, before, nAppends, nTruncates, nReopens>>

(***************************************************************************)
(* Log::truncate.                                                          *)
(***************************************************************************)
\* EndIndex stopping at the first segment that matches instead of the last
EndIndexFirst(segs, lowest) ==
  LET I == {i \in 1..Len(segs) : segs[i].next_offset <= lowest + 1}
  IN IF I = {} THEN 0 ELSE (CHOOSE i \in I : \A j \in I : i <= j) - 1

\* the 0-based index of the last segment with next_offset <= lowest + 1, 0 if none
EndIndex(segs, lowest) ==
  LET I == {i \in 1..Len(segs) : segs[i].next_offset <= lowest + 1}
  IN IF I = {} THEN 0 ELSE (CHOOSE i \in I : \A j \in I : j <= i) - 1

\* the segments drain(0..end_index) takes out, and those it leaves
Drained(segs, end_index) == SubSeq(segs, 1, end_index)

\* Remaining for drain(0..=end_index), which takes out segment end_index too
RemainingInclusive(segs, end_index) == SubSeq(segs, end_index + 2, Len(segs))

Remaining(segs, end_index) == SubSeq(segs, end_index + 1, Len(segs))

\* Segment::remove: both files are unlinked by name, then the segment is
\* closed.  When N.index is not there remove_file fails, nothing is unlinked
\* and the segment is dropped: the BufWriter writes its buffer, the index
\* file keeps its length.
Segment_remove(d, fs, seg) ==
  IF seg.base_offset \in DOMAIN d
  THEN [ok |-> TRUE,
        dir |-> [n \in DOMAIN d \ {seg.base_offset} |-> d[n]],
        files |-> Segment_close(fs, seg)]
  ELSE [ok |-> FALSE, dir |-> d, files |-> Store_flush(fs, seg)]

\* Segment::remove step by step, in the order of the code: the directory
\* and the files after the two remove_file calls, after self.index.close()
\* and after self.store.close(); when remove_file fails the function returns
\* and the segment is dropped
Segment_remove_steps(d, fs, seg) ==
  IF seg.base_offset \in DOMAIN d
  THEN LET unlinked == [n \in DOMAIN d \ {seg.base_offset} |-> d[n]]
       IN << [step |-> "remove_file", ok |-> TRUE, dir |-> unlinked, files |-> fs],
             [step |-> "index.close", ok |-> TRUE, dir |-> unlinked,
              files |-> Index_close(fs, seg)],
             [step |-> "store.close", ok |-> TRUE, dir |-> unlinked,
              files |-> Store_flush(Index_close(fs, seg), seg)] >>
  ELSE << [step |-> "remove_file", ok |-> FALSE, dir |-> d, files |-> fs],
          [step |-> "drop", ok |-> FALSE, dir |-> d, files |-> Store_flush(fs, seg)] >>

\* the loop of Log::truncate over the drained segments: it stops at the first
\* error, and the segments not yet removed are dropped
RECURSIVE RemoveAll(_, _, _, _)
RemoveAll(d, fs, drained, ok) ==
  IF drained = <<>> THEN [ok |-> ok, dir |-> d, files |-> fs]
  ELSE IF ~ok THEN RemoveAll(d, Store_flush(fs, Head(drained)), Tail(drained), FALSE)
  ELSE LET r == Segment_remove(d, fs, Head(drained))
       IN RemoveAll(r.dir, r.files, Tail(drained), r.ok)

Log_truncate(lowest) ==
  /\ status = "open"
  /\ nTruncates < MaxTruncates
  /\ nTruncates' = nTruncates + 1
  /\ \E end_index \in {EndIndex(segments, lowest)} :
     \E r \in {RemoveAll(dir, files, Drained(segments, end_index), TRUE)} :
        /\ segments' = Remaining(segments, end_index)
        /\ dir' = r.dir
        /\ files' = r.files
        /\ last' = Op("truncate", lowest, <<>>,
                      IF r.ok THEN Ok(0, <<>>) ELSE Err("Io", 0), segments)
  /\ UNCHANGED <<cfg, status, active_segment, hist, before, nAppends, nNewSegments, nReopens>>

(***************************************************************************)
(* Log::close, the process stopping without close, and Log::new on the     *)
(* directory an earlier Log left.                                          *)
(***************************************************************************)
RECURSIVE CloseAll(_, _)
CloseAll(fs, segs) ==
  IF segs = <<>> THEN fs ELSE CloseAll(Segment_close(fs, Head(segs)), Tail(segs))

RECURSIVE FlushAll(_, _)
FlushAll(fs, segs) ==
  IF segs = <<>> THEN fs ELSE FlushAll(Store_flush(fs, Head(segs)), Tail(segs))

Log_close ==
  /\ status = "open"
  /\ status' = "closed"
  /\ files' = CloseAll(files, segments)
  /\ segments' = <<>>
  /\ active_segment' = 0
  /\ last' = Op("close", 0, <<>>, Ok(0, <<>>), segments)
  /\ before' = Snapshot("close", files, segments)
  /\ UNCHANGED <<cfg, dir, hist, nAppends, nNewSegments, nTruncates, nReopens>>

\* The process stops and close() was not called.  The bytes written through
\* the mapping are in the index file, which keeps the length Index::new gave
\* it.  The bytes in the BufWriters are written if the Log was dropped
\* (dropped = TRUE) and lost if the process was killed.
Crash(dropped) ==
  /\ status = "open"
  /\ status' = "closed"
  /\ files' = IF dropped THEN FlushAll(files, segments) ELSE files
  /\ segments' = <<>>
  /\ active_segment' = 0
  /\ last' = Op("crash", 0, <<>>, Ok(0, <<>>), segments)
  /\ before' = Snapshot("crash", files, segments)
  /\ UNCHANGED <<cfg, dir, hist, nAppends, nNewSegments, nTruncates, nReopens>>

\* Log::new(directory, config) with the directory and the config of the Log before
Reopen ==
  /\ status = "closed"
  /\ nReopens < MaxReopens
  /\ nReopens' = nReopens + 1
  /\ \E log \in {Log_new(dir, files, cfg)} :
        /\ dir' = log.dir
        /\ files' = log.files
        /\ segments' = log.segments
        /\ active_segment' = log.active_segment
        /\ status' = IF log.ok THEN "open" ELSE "closed"
        /\ last' = Op("new", 0, <<>>, IF log.ok THEN Ok(0, <<>>) ELSE Err("Io", 0), <<>>)
  /\ hist' = <<>>
  /\ UNCHANGED <<cfg, before, nAppends, nNewSegments, nTruncates>>

(***************************************************************************)
(* The LogServer: handlers that share one Log behind a tokio RwLock.  Each *)
(* handler runs in a task; a task moves step by step, and the steps of the *)
(* tasks interleave.  The lock is modelled without its queue of waiters:   *)
(* a task that waits takes the lock in any state that allows it.           *)
(***************************************************************************)
\* the capacity of the channel of a stream
CHANNEL_CAPACITY == 4

\* a write lock that does not wait for the readers
CanWriteOverReaders(l) == l.writer = 0

\* log.write().await returns: nobody holds a guard
CanWrite(l) == l.writer = 0 /\ l.readers = {}

\* a read lock that does not wait for the writer
CanReadOverWriter(l) == TRUE

\* log.read().await returns: nobody holds the write guard
CanRead(l) == l.writer = 0

\* the response a stream sends for the result of Log::read
StreamResponse(res) ==
  IF res.kind = "Ok"
  THEN [ok |-> TRUE, code |-> "Ok", message |-> "",
        record |-> [offset |-> res.offset, value |-> res.value]]
  ELSE [ok |-> FALSE, code |-> "Ok", message |-> "DONE",
        record |-> [offset |-> 0, value |-> <<>>]]

\* the status produce answers with
ProduceStatus(res) == IF res.kind = "Ok" THEN "Ok" ELSE "Unavailable"

\* the status consume answers with
ConsumeStatus(res) == IF res.kind = "Ok" THEN "Ok" ELSE "Unavailable"

\* a request arrives and a task starts to serve it
produce(t, value) ==
  /\ task[t].pc = "idle"
  /\ nRequests < MaxRequests
  /\ nRequests' = nRequests + 1
  /\ task' = [task EXCEPT ![t] = [IdleTask EXCEPT !.pc = "acquire", !.rpc = "produce",
                                                  !.value = value]]
  /\ UNCHANGED <<lock, chan, received>>
  /\ UNCHANGED log_vars

consume(t, offset) ==
  /\ task[t].pc = "idle"
  /\ status = "open"
  /\ nRequests < MaxRequests
  /\ nRequests' = nRequests + 1
  /\ task' = [task EXCEPT ![t] = [IdleTask EXCEPT !.pc = "acquire", !.rpc = "consume",
                                                  !.offset = offset,
                                                  !.requested_at = highest_offset(segments)]]
  /\ UNCHANGED <<lock, chan, received>>
  /\ UNCHANGED log_vars

\* consume_stream answers at once with the receiving end of a new channel;
\* the task it spawns reads and sends in a loop
consume_stream(t, offset) ==
  /\ task[t].pc = "idle"
  /\ nRequests < MaxRequests
  /\ nRequests' = nRequests + 1
  /\ task' = [task EXCEPT ![t] = [IdleTask EXCEPT !.pc = "acquire",
                                                  !.rpc = "consume_stream",
                                                  !.offset = offset, !.status = "Ok"]]
  /\ chan' = [chan EXCEPT ![t] = <<>>]
  /\ UNCHANGED <<lock, received>>
  /\ UNCHANGED log_vars

\* self.log.write().await
AcquireWrite(t) ==
  /\ task[t].pc = "acquire"
  /\ task[t].rpc \in {"produce", "produce_stream"}
  /\ CanWrite(lock)
  /\ lock' = [lock EXCEPT !.writer = t]
  /\ task' = [task EXCEPT ![t].pc = "append_store"]
  /\ UNCHANGED <<chan, received, nRequests>>
  /\ UNCHANGED log_vars

\* self.log.read().await
AcquireRead(t) ==
  /\ task[t].pc = "acquire"
  /\ task[t].rpc \in {"consume", "consume_stream"}
  /\ CanRead(lock)
  /\ lock' = [lock EXCEPT !.readers = @ \cup {t}]
  /\ task' = [task EXCEPT ![t].pc = "read"]
  /\ UNCHANGED <<chan, received, nRequests>>
  /\ UNCHANGED log_vars

\* Log::append, first step: Segment::append writes the record to the store
AppendStore(t) ==
  /\ task[t].pc = "append_store"
  /\ status = "open"
  /\ active_segment < Len(segments)
  /\ \E out \in {Store_append(segments[active_segment + 1],
                              Record_encode(segments[active_segment + 1].next_offset,
                                            task[t].value))} :
        /\ segments' = [segments EXCEPT ![active_segment + 1] = out.seg]
        /\ task' = [task EXCEPT ![t].pc = "append_index",
                                ![t].appended_at = out.appended_at]
  /\ UNCHANGED <<cfg, dir, files, status, active_segment, last, hist, before,
                 nAppends, nNewSegments, nTruncates, nReopens>>
  /\ UNCHANGED <<lock, chan, received, nRequests>>

\* Log::append, second step: Segment::append writes the index entry and
\* increments next_offset, or fails because the index is full
AppendIndex(t) ==
  /\ task[t].pc = "append_index"
  /\ status = "open"
  /\ \E seg \in {segments[active_segment + 1]} :
     \E w \in {Index_write(files[seg.fid].index, seg, seg.next_offset - seg.base_offset,
                           task[t].appended_at)} :
        IF w.kind = "Ok"
        THEN /\ files' = [files EXCEPT ![seg.fid].index = w.mm]
             /\ segments' = [segments EXCEPT ![active_segment + 1] =
                                [w.seg EXCEPT !.next_offset = @ + 1]]
             /\ task' = [task EXCEPT ![t].pc = "append_rollover",
                                     ![t].res = Ok(seg.next_offset, <<>>)]
             /\ UNCHANGED <<status, active_segment, before, hist, nAppends>>
        ELSE IF w.kind = "IndexIsFull"
        THEN /\ task' = [task EXCEPT ![t].pc = IF task[t].rpc = "produce"
                                               THEN "respond" ELSE "send",
                                     ![t].res = Err("IndexIsFull", 0)]
             /\ hist' = Append(hist, [value |-> task[t].value,
                                      res |-> Err("IndexIsFull", 0)])
             /\ nAppends' = nAppends + 1
             /\ UNCHANGED <<files, status, segments, active_segment, before>>
        ELSE /\ Stopped
             /\ task' = [task EXCEPT ![t].pc = "stopped"]
             /\ UNCHANGED <<files, hist, nAppends>>
  /\ UNCHANGED <<cfg, dir, last, nNewSegments, nTruncates, nReopens>>
  /\ UNCHANGED <<lock, chan, received, nRequests>>

\* Log::append, last step: a new active segment when the segment is maxed
AppendRollover(t) ==
  /\ task[t].pc = "append_rollover"
  /\ status = "open"
  /\ \E seg \in {segments[active_segment + 1]} :
     \E n \in {Segment_new(dir, files, task[t].res.offset + 1,
                           RolloverConfig(cfg).max_index_bytes,
                           RolloverConfig(cfg).max_store_bytes)} :
     \E res \in {IF Segment_is_maxed(seg) /\ ~n.ok THEN Err("Io", 0) ELSE task[t].res} :
        /\ IF Segment_is_maxed(seg)
           THEN /\ dir' = n.dir
                /\ files' = n.files
                /\ segments' = IF n.ok THEN Append(segments, n.seg) ELSE segments
                /\ active_segment' = IF n.ok THEN active_segment + 1 ELSE active_segment
           ELSE UNCHANGED <<dir, files, segments, active_segment>>
        /\ task' = [task EXCEPT ![t].pc = IF task[t].rpc = "produce"
                                          THEN "respond" ELSE "send",
                                ![t].res = res]
        /\ hist' = Append(hist, [value |-> task[t].value, res |-> res])
  /\ nAppends' = nAppends + 1
  /\ UNCHANGED <<cfg, status, last, before, nNewSegments, nTruncates, nReopens>>
  /\ UNCHANGED <<lock, chan, received, nRequests>>

\* Log::read under the read guard
Read(t) ==
  /\ task[t].pc = "read"
  /\ Log_read(task[t].offset)
  /\ \E res \in {ReadResult(files, segments, task[t].offset)} :
        task' = [task EXCEPT ![t].pc = IF task[t].rpc = "consume" THEN "respond" ELSE "send",
                             ![t].res = res]
  /\ UNCHANGED <<lock, chan, received, nRequests>>

\* the handler maps the result to a status and returns; the guard is dropped
Respond(t) ==
  /\ task[t].pc = "respond"
  /\ task' = [task EXCEPT ![t].pc = "idle",
                          ![t].status = IF task[t].rpc = "produce"
                                        THEN ProduceStatus(task[t].res)
                                        ELSE ConsumeStatus(task[t].res)]
  /\ lock' = [writer |-> IF lock.writer = t THEN 0 ELSE lock.writer,
              readers |-> lock.readers \ {t}]
  /\ UNCHANGED <<chan, received, nRequests>>
  /\ UNCHANGED log_vars

\* tx.send(..).await returns when the channel has room; the read guard is
\* dropped after it, and the loop starts again with the same offset
Send(t) ==
  /\ task[t].pc = "send"
  /\ task[t].rpc = "consume_stream"
  /\ Len(chan[t]) < CHANNEL_CAPACITY
  /\ chan' = [chan EXCEPT ![t] = Append(@, StreamResponse(task[t].res))]
  /\ lock' = [lock EXCEPT !.readers = @ \ {t}]
  /\ task' = [task EXCEPT ![t].pc = "acquire"]
  /\ UNCHANGED <<received, nRequests>>
  /\ UNCHANGED log_vars

\* the client takes the next response of the stream
Recv(t) ==
  /\ chan[t] # <<>>
  /\ Len(received[t]) < MaxReceived
  /\ received' = [received EXCEPT ![t] = Append(@, Head(chan[t]))]
  /\ chan' = [chan EXCEPT ![t] = Tail(@)]
  /\ UNCHANGED <<lock, task, nRequests>>
  /\ UNCHANGED log_vars

\* the response produce_stream sends for the result of Log::append
ProduceStreamResponse(res) ==
  IF res.kind = "Ok"
  THEN [ok |-> TRUE, code |-> "Ok", message |-> "",
        record |-> [offset |-> res.offset, value |-> <<>>]]
  ELSE [ok |-> FALSE, code |-> "Unavailable", message |-> "service unavailable",
        record |-> [offset |-> 0, value |-> <<>>]]

\* the number of requests the tasks ts took from their request streams
RECURSIVE Messages(_)
Messages(ts) ==
  IF ts = {} THEN 0
  ELSE LET t == CHOOSE x \in ts : TRUE
       IN Len(task[t].sent) + Messages(ts \ {t})

\* produce_stream answers at once with the receiving end of a new channel;
\* the task it spawns waits for the requests of the stream
produce_stream(t) ==
  /\ task[t].pc = "idle"
  /\ nRequests < MaxRequests
  /\ nRequests' = nRequests + 1
  /\ task' = [task EXCEPT ![t] = [IdleTask EXCEPT !.pc = "message",
                                                  !.rpc = "produce_stream",
                                                  !.status = "Ok"]]
  /\ chan' = [chan EXCEPT ![t] = <<>>]
  /\ UNCHANGED <<lock, received>>
  /\ UNCHANGED log_vars

\* request_streamer.message().await returns Some(request)
Message(t, value) ==
  /\ task[t].pc = "message"
  /\ Messages(Tasks) < MaxMessages
  /\ task' = [task EXCEPT ![t].pc = "acquire", ![t].value = value,
                          ![t].sent = Append(@, value)]
  /\ UNCHANGED <<lock, chan, received, nRequests>>
  /\ UNCHANGED log_vars

\* request_streamer.message().await returns None: the loop and the task end
StreamEnd(t) ==
  /\ task[t].pc = "message"
  /\ task' = [task EXCEPT ![t].pc = "ended"]
  /\ UNCHANGED <<lock, chan, received, nRequests>>
  /\ UNCHANGED log_vars

\* a produce_stream that sends the highest offset of the Log, the offset
\* the next record will get, for the offset of the record
SendNextOffset(t) ==
  /\ task[t].pc = "send"
  /\ task[t].rpc = "produce_stream"
  /\ Len(chan[t]) < CHANNEL_CAPACITY
  /\ chan' = [chan EXCEPT ![t] = Append(@, ProduceStreamResponse(
                  IF task[t].res.kind = "Ok" /\ segments # <<>>
                  THEN Ok(highest_offset(segments), <<>>) ELSE task[t].res))]
  /\ lock' = [lock EXCEPT !.writer = 0]
  /\ task' = [task EXCEPT ![t].pc = "message"]
  /\ UNCHANGED <<received, nRequests>>
  /\ UNCHANGED log_vars

\* tx.send(..).await of produce_stream returns when the channel has room;
\* the write guard is dropped after it, and the task waits for the next
\* request
SendOffset(t) ==
  /\ task[t].pc = "send"
  /\ task[t].rpc = "produce_stream"
  /\ Len(chan[t]) < CHANNEL_CAPACITY
  /\ chan' = [chan EXCEPT ![t] = Append(@, ProduceStreamResponse(task[t].res))]
  /\ lock' = [lock EXCEPT !.writer = 0]
  /\ task' = [task EXCEPT ![t].pc = "message"]
  /\ UNCHANGED <<received, nRequests>>
  /\ UNCHANGED log_vars

(***************************************************************************)
(* A Store used on its own (the tests of store.rs): Store::new on a file,  *)
(* then append, read and read_at in any order.                             *)
(***************************************************************************)
\* no Log is open and no server runs
NoLog ==
  /\ dir = EmptyDir
  /\ status = "closed"
  /\ segments = <<>>
  /\ active_segment = 0
  /\ last = Op("none", 0, <<>>, Ok(0, <<>>), <<>>)
  /\ hist = <<>>
  /\ before = [how |-> "none", lowest |-> 0, highest |-> 0,
               reads |-> [o \in ReadArgs |-> Err("OffsetOutOfBounds", o)]]
  /\ nAppends = 0
  /\ nNewSegments = 0
  /\ nTruncates = 0
  /\ nReopens = 0
  /\ LogServer_new

\* the buffers appended to the Store
Payloads == Values \cup { <<0, 0, 0, 0, 0, 0, 0, 1, 9>> }

\* the store files a Store is opened on: a new file, and a file that holds
\* the entry of an earlier Store
InitialStores == { <<>>, to_be_bytes(1, LEN_WIDTH) \o <<7>> }

InitStore ==
  /\ cfg \in Configs
  /\ NoLog
  /\ \E bytes \in InitialStores :
        /\ files = << [store |-> bytes, index |-> <<>>] >>
        /\ store = Store_new(1, bytes)
        /\ calls = << [op |-> "new", buffer |-> <<>>, appended_at |-> 0,
                       bytes_written |-> 0, size_before |-> Len(bytes),
                       size_after |-> Len(bytes)] >>
  /\ index = NoIndex
  /\ got = NoRead

\* the appends among the calls
Appends(cs) == SelectSeq(cs, LAMBDA c : c.op = "append")

\* store.append(buffer), and store.size() before and after it
StoreAppend(buffer) ==
  /\ Len(Appends(calls)) < MaxCalls
  /\ \E out \in {Store_append(store, buffer)} :
        /\ store' = out.seg
        /\ calls' = Append(calls, [op |-> "append", buffer |-> buffer,
                                   appended_at |-> out.appended_at,
                                   bytes_written |-> out.bytes_written,
                                   size_before |-> Store_size(store),
                                   size_after |-> Store_size(out.seg)])
  /\ got' = NoRead
  /\ UNCHANGED <<index, files>>
  /\ UNCHANGED <<cfg, dir, status, segments, active_segment, last, hist, before,
                 nAppends, nNewSegments, nTruncates, nReopens>>
  /\ UNCHANGED server_vars

\* store.read(position): the buffer is written to the file, then the file is read
StoreRead(position) ==
  /\ store.fid = 1
  /\ files' = Store_flush(files, store)
  /\ store' = [store EXCEPT !.writer = <<>>]
  /\ got' = [op |-> "read", arg |-> position, len |-> 0, buffered |-> Len(store.writer),
             res |-> Store_read(Store_flush(files, store)[1].store, position)]
  /\ UNCHANGED <<index, calls>>
  /\ UNCHANGED <<cfg, dir, status, segments, active_segment, last, hist, before,
                 nAppends, nNewSegments, nTruncates, nReopens>>
  /\ UNCHANGED server_vars

\* store.read_at(buffer, position) with a buffer of n bytes
StoreReadAt(n, position) ==
  /\ store.fid = 1
  /\ files' = Store_flush(files, store)
  /\ store' = [store EXCEPT !.writer = <<>>]
  /\ got' = [op |-> "read_at", arg |-> position, len |-> n, buffered |-> Len(store.writer),
             res |-> Store_read_at(Store_flush(files, store)[1].store, n, position)]
  /\ UNCHANGED <<index, calls>>
  /\ UNCHANGED <<cfg, dir, status, segments, active_segment, last, hist, before,
                 nAppends, nNewSegments, nTruncates, nReopens>>
  /\ UNCHANGED server_vars

\* the positions read: where an append wrote, and the end of the store
Positions == {calls[i].appended_at : i \in 1..Len(calls)} \cup {Store_size(store)}

NextStore ==
  \/ \E buffer \in Payloads : StoreAppend(buffer)
  \/ \E position \in Positions : StoreRead(position)
  \/ \E buffer \in Payloads : \E position \in Positions : StoreReadAt(Len(buffer), position)

SpecStore == InitStore /\ [][NextStore]_vars

(***************************************************************************)
(* An Index used on its own (the tests of index.rs): Index::new on a file, *)
(* then write and read in any order; the Index is closed, or the process   *)
(* ends without closing it, and a later Index::new opens the file again    *)
(* with the same Config.                                                   *)
(***************************************************************************)
\* the positions written to the Index
IndexPositions == {0, 17, 300}

\* a call on the index file, and what it returned
IndexCall(op, offset, position, kind) ==
  [op |-> op, offset |-> offset, position |-> position, kind |-> kind]

\* Index::new on files[1].index
IndexOpen(fs, max_index_bytes) ==
  [index |-> [fid |-> 1, size |-> Index_new(fs, 1, max_index_bytes).size,
              mmap_len |-> max_index_bytes, is_open |-> TRUE],
   fs |-> Index_new(fs, 1, max_index_bytes).fs]

InitIndex ==
  /\ cfg \in Configs
  /\ NoLog
  /\ \E o \in {IndexOpen(<< EmptyFile >>, cfg.max_index_bytes_per_segment)} :
        /\ files = o.fs
        /\ index = o.index
  /\ calls = << IndexCall("new", 0, 0, "Ok") >>
  /\ store = NoStore
  /\ got = NoRead

\* the calls of the kind
CallsOf(cs, op) == SelectSeq(cs, LAMBDA c : c.op = op)

\* index.write(offset, position)
IndexWrite(offset, position) ==
  /\ index.is_open
  /\ Len(CallsOf(calls, "write")) < MaxCalls
  /\ \E w \in {Index_write(files[1].index, index, offset, position)} :
        /\ w.kind \in {"Ok", "IndexIsFull"}
        /\ files' = [files EXCEPT ![1].index = w.mm]
        /\ index' = w.seg
        /\ calls' = Append(calls, IndexCall("write", offset, position, w.kind))
  /\ got' = NoRead
  /\ UNCHANGED store
  /\ UNCHANGED <<cfg, dir, status, segments, active_segment, last, hist, before,
                 nAppends, nNewSegments, nTruncates, nReopens>>
  /\ UNCHANGED server_vars

\* index.read(offset)
IndexRead(offset) ==
  /\ index.is_open
  /\ got' = [op |-> "read", arg |-> offset, len |-> 0, buffered |-> 0,
             res |-> Index_read(files[1].index, index, offset)]
  /\ UNCHANGED <<store, index, calls>>
  /\ UNCHANGED log_vars
  /\ UNCHANGED server_vars

\* index.close()
IndexClose ==
  /\ index.is_open
  /\ files' = Index_close(files, index)
  /\ index' = [index EXCEPT !.is_open = FALSE]
  /\ calls' = Append(calls, IndexCall("close", 0, 0, "Ok"))
  /\ got' = NoRead
  /\ UNCHANGED store
  /\ UNCHANGED <<cfg, dir, status, segments, active_segment, last, hist, before,
                 nAppends, nNewSegments, nTruncates, nReopens>>
  /\ UNCHANGED server_vars

\* the process ends and the Index was not closed: the file keeps the length
\* Index::new gave it
IndexDropped ==
  /\ index.is_open
  /\ index' = [index EXCEPT !.is_open = FALSE]
  /\ calls' = Append(calls, IndexCall("dropped", 0, 0, "Ok"))
  /\ got' = NoRead
  /\ UNCHANGED <<store, files>>
  /\ UNCHANGED <<cfg, dir, status, segments, active_segment, last, hist, before,
                 nAppends, nNewSegments, nTruncates, nReopens>>
  /\ UNCHANGED server_vars

\* a later Index::new on the file
IndexReopen ==
  /\ ~index.is_open
  /\ Len(CallsOf(calls, "new")) <= MaxReopens
  /\ \E o \in {IndexOpen(files, cfg.max_index_bytes_per_segment)} :
        /\ files' = o.fs
        /\ index' = o.index
  /\ calls' = Append(calls, IndexCall("new", 0, 0, "Ok"))
  /\ got' = NoRead
  /\ UNCHANGED store
  /\ UNCHANGED <<cfg, dir, status, segments, active_segment, last, hist, before,
                 nAppends, nNewSegments, nTruncates, nReopens>>
  /\ UNCHANGED server_vars

NextIndex ==
  \/ \E position \in IndexPositions : IndexWrite(Index_len(index), position)
  \/ \E offset \in 0..(MaxCalls + 1) : IndexRead(offset)
  \/ IndexClose
  \/ IndexDropped
  \/ IndexReopen

SpecIndex == InitIndex /\ [][NextIndex]_vars

Next ==
  \/ \E value \in Values : Log_append(value) /\ UNCHANGED <<server_vars, unit_vars>>
  \/ \E offset \in ReadArgs : Log_read(offset) /\ UNCHANGED <<server_vars, unit_vars>>
  \/ \E offset \in 0..MaxOffsetArg : Log_new_segment(offset) /\ UNCHANGED <<server_vars, unit_vars>>
  \/ \E lowest \in 0..MaxOffsetArg : Log_truncate(lowest) /\ UNCHANGED <<server_vars, unit_vars>>
  \/ Log_close /\ UNCHANGED <<server_vars, unit_vars>>
  \/ \E dropped \in BOOLEAN : Crash(dropped) /\ UNCHANGED <<server_vars, unit_vars>>
  \/ Reopen /\ UNCHANGED <<server_vars, unit_vars>>

Spec == Init /\ [][Next]_vars

\* a fresh Log that is appended to and read
NextAppend ==
  \/ \E value \in Values : Log_append(value) /\ UNCHANGED <<server_vars, unit_vars>>
  \/ \E offset \in ReadArgs : Log_read(offset) /\ UNCHANGED <<server_vars, unit_vars>>

SpecAppend == Init /\ [][NextAppend]_vars

\* a Log that is appended to, closed or stopped, and opened again
NextRecovery ==
  \/ \E value \in Values : Log_append(value) /\ UNCHANGED <<server_vars, unit_vars>>
  \/ \E offset \in ReadArgs : Log_read(offset) /\ UNCHANGED <<server_vars, unit_vars>>
  \/ Log_close /\ UNCHANGED <<server_vars, unit_vars>>
  \/ \E dropped \in BOOLEAN : Crash(dropped) /\ UNCHANGED <<server_vars, unit_vars>>
  \/ Reopen /\ UNCHANGED <<server_vars, unit_vars>>

SpecRecovery == Init /\ [][NextRecovery]_vars

\* a Log whose segments are created by new_segment and removed by truncate
NextSegments ==
  \/ \E value \in Values : Log_append(value) /\ UNCHANGED <<server_vars, unit_vars>>
  \/ \E offset \in ReadArgs : Log_read(offset) /\ UNCHANGED <<server_vars, unit_vars>>
  \/ \E offset \in 0..MaxOffsetArg : Log_new_segment(offset) /\ UNCHANGED <<server_vars, unit_vars>>
  \/ \E lowest \in 0..MaxOffsetArg : Log_truncate(lowest) /\ UNCHANGED <<server_vars, unit_vars>>

SpecSegments == Init /\ [][NextSegments]_vars

\* a Log that is appended to, gets segments by new_segment and is truncated;
\* what truncate does depends on the offsets of the segments and not on the
\* payloads, so every append has the empty payload
NextTruncate ==
  \/ Log_append(<<>>) /\ UNCHANGED <<server_vars, unit_vars>>
  \/ \E offset \in 0..MaxOffsetArg : Log_new_segment(offset) /\ UNCHANGED <<server_vars, unit_vars>>
  \/ \E lowest \in 0..MaxOffsetArg : Log_truncate(lowest) /\ UNCHANGED <<server_vars, unit_vars>>

SpecTruncate == Init /\ [][NextTruncate]_vars

\* a Log that the produce and consume handlers of the server append to and read
NextServer ==
  \/ \E t \in Tasks : \E value \in Values : produce(t, value) /\ UNCHANGED unit_vars
  \/ \E t \in Tasks : \E offset \in 0..MaxOffsetArg : consume(t, offset) /\ UNCHANGED unit_vars
  \/ \E t \in Tasks : AcquireWrite(t) /\ UNCHANGED unit_vars
  \/ \E t \in Tasks : AcquireRead(t) /\ UNCHANGED unit_vars
  \/ \E t \in Tasks : AppendStore(t) /\ UNCHANGED unit_vars
  \/ \E t \in Tasks : AppendIndex(t) /\ UNCHANGED unit_vars
  \/ \E t \in Tasks : AppendRollover(t) /\ UNCHANGED unit_vars
  \/ \E t \in Tasks : Read(t) /\ UNCHANGED unit_vars
  \/ \E t \in Tasks : Respond(t) /\ UNCHANGED unit_vars

SpecServer == Init /\ [][NextServer]_vars

\* a Log that produce appends to while streams read it
NextStream ==
  \/ \E t \in Tasks : \E value \in Values : produce(t, value) /\ UNCHANGED unit_vars
  \/ \E t \in Tasks : \E offset \in 0..MaxOffsetArg : consume_stream(t, offset) /\ UNCHANGED unit_vars
  \/ \E t \in Tasks : AcquireWrite(t) /\ UNCHANGED unit_vars
  \/ \E t \in Tasks : AcquireRead(t) /\ UNCHANGED unit_vars
  \/ \E t \in Tasks : AppendStore(t) /\ UNCHANGED unit_vars
  \/ \E t \in Tasks : AppendIndex(t) /\ UNCHANGED unit_vars
  \/ \E t \in Tasks : AppendRollover(t) /\ UNCHANGED unit_vars
  \/ \E t \in Tasks : Read(t) /\ UNCHANGED unit_vars
  \/ \E t \in Tasks : Respond(t) /\ UNCHANGED unit_vars
  \/ \E t \in Tasks : Send(t) /\ UNCHANGED unit_vars
  \/ \E t \in Tasks : Recv(t) /\ UNCHANGED unit_vars

SpecStream == Init /\ [][NextStream]_vars

\* a Log that produce calls and the tasks of produce_stream calls append to
NextProduce ==
  \/ \E t \in Tasks : \E value \in Values : produce(t, value) /\ UNCHANGED unit_vars
  \/ \E t \in Tasks : produce_stream(t) /\ UNCHANGED unit_vars
  \/ \E t \in Tasks : \E value \in Values : Message(t, value) /\ UNCHANGED unit_vars
  \/ \E t \in Tasks : StreamEnd(t) /\ UNCHANGED unit_vars
  \/ \E t \in Tasks : AcquireWrite(t) /\ UNCHANGED unit_vars
  \/ \E t \in Tasks : AppendStore(t) /\ UNCHANGED unit_vars
  \/ \E t \in Tasks : AppendIndex(t) /\ UNCHANGED unit_vars
  \/ \E t \in Tasks : AppendRollover(t) /\ UNCHANGED unit_vars
  \/ \E t \in Tasks : Respond(t) /\ UNCHANGED unit_vars
  \/ \E t \in Tasks : SendOffset(t) /\ UNCHANGED unit_vars

SpecProduce == Init /\ [][NextProduce]_vars

(***************************************************************************)
(* The claims.                                                             *)
(***************************************************************************)
Successes(h) == Cardinality({i \in 1..Len(h) : h[i].res.kind = "Ok"})

\* C1: after any sequence of appends v0..v(n-1) to a fresh Log with
\* initial_offset b, every append has succeeded, the i-th with offset b + i,
\* and Log.read(b + i) returns the record {offset: b + i, value: vi}.
C1_AppendThenRead ==
  \A i \in 1..Len(hist) :
    LET offset == cfg.initial_offset + i - 1
    IN /\ hist[i].res = Ok(offset, <<>>)
       /\ ReadResult(files, segments, offset) = Ok(offset, hist[i].value)

\* C2: every successful Log.append returns an offset strictly greater than
\* every offset an earlier append of the same Log instance returned.
C2_StrictlyIncreasing ==
  \A i, j \in 1..Len(hist) :
    (i < j /\ hist[i].res.kind = "Ok" /\ hist[j].res.kind = "Ok")
      => hist[i].res.offset < hist[j].res.offset

\* C3: after appends to a fresh Log with initial_offset b, n of them
\* successful, lowest_offset() = b and highest_offset() = b + n.
C3_LowestHighest ==
  status = "open" =>
    /\ lowest_offset(segments) = cfg.initial_offset
    /\ highest_offset(segments) = cfg.initial_offset + Successes(hist)

\* the Log was opened again after it ended the way `how` says
Reopened(how) == status = "open" /\ nReopens > 0 /\ before.how = how

\* C4: a Log opened on the directory of a Log that was closed returns the
\* same record for every offset that was readable before the close, has the
\* same lowest_offset and highest_offset, and its next append returns the
\* old highest_offset.
C4_CloseReopen ==
  /\ (Reopened("close") /\ last.op = "new") =>
       /\ \A o \in ReadArgs :
            before.reads[o].kind = "Ok" => ReadResult(files, segments, o) = before.reads[o]
       /\ lowest_offset(segments) = before.lowest
       /\ highest_offset(segments) = before.highest
  /\ (Reopened("close") /\ last.op = "append" /\ Len(hist) = 1) =>
       last.res = Ok(before.highest, <<>>)

\* the last operation is an append that wrote its record to the segment that
\* was the last one: that segment holds one record more than before
AppendStored ==
  /\ status = "open"
  /\ last.op = "append"
  /\ Len(last.pre) >= 1
  /\ Len(segments) >= Len(last.pre)
  /\ segments[Len(last.pre)].next_offset = last.pre[Len(last.pre)].next_offset + 1

\* C5: when the active segment is maxed after an append wrote the record with
\* offset o to it, the append succeeds and the Log has pushed exactly one new
\* segment, with base_offset = o + 1, which is the active one; when the
\* segment is not maxed, the segment list is as before.
C5_Rollover ==
  AppendStored =>
    LET a == Len(last.pre)
        o == last.pre[a].next_offset
    IN IF Segment_is_maxed(segments[a])
       THEN /\ last.res = Ok(o, <<>>)
            /\ Len(segments) = a + 1
            /\ segments[a + 1].base_offset = o + 1
            /\ active_segment = a
       ELSE /\ last.res = Ok(o, <<>>)
            /\ Len(segments) = a
            /\ \A i \in 1..a : segments[i].base_offset = last.pre[i].base_offset

\* C6: an append made after a segment of the Log was maxed succeeds, and its
\* record is in the active segment, which is not the maxed one and has the
\* caps of the Log's config.
C6_AppendAfterRollover ==
  (status = "open" /\ last.op = "append" /\ \E i \in 1..Len(last.pre) : last.pre[i].maxed) =>
    /\ last.res.kind = "Ok"
    /\ active_segment + 1 \in 1..Len(segments)
    /\ LET s == segments[active_segment + 1]
       IN /\ ~Segment_is_maxed(s) \/ s.next_offset = last.res.offset + 1
          /\ s.base_offset <= last.res.offset
          /\ \A i \in 1..Len(last.pre) : last.pre[i].maxed => last.pre[i].base_offset < s.base_offset
          /\ s.max_store_bytes = cfg.max_store_bytes_per_segment
          /\ s.max_index_bytes = cfg.max_index_bytes_per_segment

\* C7: in every state of an open Log, Log.read(o) fails with
\* OffsetOutOfBounds(o) for o = highest_offset() and for every o below
\* lowest_offset().
C7_OutOfBounds ==
  status = "open" =>
    /\ ReadResult(files, segments, highest_offset(segments))
         = Err("OffsetOutOfBounds", highest_offset(segments))
    /\ \A o \in 0..(lowest_offset(segments) - 1) :
         ReadResult(files, segments, o) = Err("OffsetOutOfBounds", o)

Survives(seg) == seg.next_offset > last.arg + 1

C10_CrashRecovery ==
  (Reopened("crash") /\ last.op = "new") =>
    /\ highest_offset(segments) = before.highest
    /\ \A o \in ReadArgs :
         before.reads[o].kind = "Ok" => ReadResult(files, segments, o) = before.reads[o]
    /\ \A o \in ReadArgs :
         before.reads[o].err = "OffsetOutOfBounds"
           => ReadResult(files, segments, o) = Err("OffsetOutOfBounds", o)

\* the base offset and the next offset of every segment
Offsets(segs) ==
  [i \in 1..Len(segs) |-> [base_offset |-> segs[i].base_offset,
                           next_offset |-> segs[i].next_offset]]

\* the step is a Log.append that returns an error
FailedAppend ==
  /\ status = "open"
  /\ nAppends' = nAppends + 1
  /\ last'.res.kind = "Err"

\* C11: a Log.append that returns an error leaves highest_offset(), the
\* offsets of the segment list and the result of read for every offset as
\* they were before the call.
C11_FailedAppendUnchanged ==
  [][FailedAppend =>
       /\ highest_offset(segments') = highest_offset(segments)
       /\ Offsets(segments') = Offsets(segments)
       /\ \A o \in ReadArgs :
            ReadResult(files', segments', o) = ReadResult(files, segments, o)]_vars

\* the bytes of the store of a segment: those in the file and those in the writer
StoreContents(fs, seg) == fs[seg.fid].store \o seg.writer

\* C12: after a Segment.append that fails with IndexIsFull, store.size() and
\* the store contents are the same as before the call.
C12_IndexFullBeforeStore ==
  [][(FailedAppend /\ last'.res.err = "IndexIsFull") =>
       LET a == active_segment + 1
       IN /\ Store_size(segments'[a]) = Store_size(segments[a])
          /\ StoreContents(files', segments'[a]) = StoreContents(files, segments[a])]_vars

\* each segment's next_offset is the base_offset of the segment after it
Contiguous(segs) ==
  \A k \in 1..(Len(segs) - 1) : segs[k].next_offset = segs[k + 1].base_offset

\* the base offsets (the stems of the file names) are strictly increasing
StrictlyIncreasingStems(segs) ==
  \A k \in 1..(Len(segs) - 1) : segs[k].base_offset < segs[k + 1].base_offset

\* C17: Log.new returns no Log on a directory whose recovered segments
\* violate the chain (stems not strictly increasing, or a recovered
\* next_offset that is not the next segment's base_offset).
C17_CorruptDirectory ==
  (status = "open" /\ last.op = "new") =>
    (StrictlyIncreasingStems(segments) /\ Contiguous(segments))

\* C18: in every state of an open Log the segments are ordered by
\* base_offset and contiguous: segments[k].next_offset =
\* segments[k+1].base_offset, so that every offset in
\* [lowest_offset, highest_offset) is in exactly one segment.
C18_ContiguousSegments ==
  status = "open" =>
    /\ \A k \in 1..(Len(segments) - 1) :
         segments[k].base_offset <= segments[k + 1].base_offset
    /\ Contiguous(segments)
    /\ \A o \in lowest_offset(segments)..(highest_offset(segments) - 1) :
         Cardinality({k \in 1..Len(segments) :
                        segments[k].base_offset <= o /\ o < segments[k].next_offset}) = 1

\* C19: at the start of every Log.append the active segment is not maxed.
C19_NoAppendToMaxed ==
  [][(status = "open" /\ nAppends' = nAppends + 1 /\ active_segment < Len(segments)) =>
       ~Segment_is_maxed(segments[active_segment + 1])]_vars

\* C20: in every state of an open Log, N.store and N.index are in the
\* directory if and only if a segment with base_offset = N is in the
\* segment list.
C20_FilesIffSegment ==
  status = "open" =>
    DOMAIN dir = {segments[k].base_offset : k \in 1..Len(segments)}

\* the task is inside Log::append, or has left it and not yet dropped the guard
InWriter(t) ==
  \/ task[t].pc \in {"append_store", "append_index", "append_rollover"}
  \/ task[t].pc = "respond" /\ task[t].rpc = "produce"

\* the task is inside Log::read, or has left it and not yet dropped the guard
InReader(t) ==
  \/ task[t].pc \in {"read", "send"}
  \/ task[t].pc = "respond" /\ task[t].rpc = "consume"

\* C13: while a task is inside an append no other task is inside an append
\* or a read, only reads overlap, and a task holds its guard from the first
\* to the last step of its operation
C13_WritersExclusive ==
  \A t \in Tasks :
    /\ InWriter(t) => /\ lock.writer = t
                      /\ \A u \in Tasks \ {t} : ~InWriter(u) /\ ~InReader(u)
    /\ InReader(t) => t \in lock.readers /\ lock.writer = 0

\* an append has written the store and not yet the index while another
\* request waits for the lock
W_C13 ==
  \E t, u \in Tasks : /\ task[t].pc = "append_index"
                      /\ task[u].pc = "acquire"

\* the task has written a part of what Log::append writes
Appending(t) == task[t].pc \in {"append_index", "append_rollover"}

\* the appends that wrote their record, in the order of their offsets
Committed(h) == SelectSeq(h, LAMBDA e : e.res.kind = "Ok" \/ e.res.err = "Io")

\* what a read of the offset returns when the appends of h are complete
CompleteRead(h, offset) ==
  LET k == offset - cfg.initial_offset + 1
  IN IF k \in 1..Len(Committed(h))
     THEN Ok(offset, Committed(h)[k].value)
     ELSE Err("OffsetOutOfBounds", offset)

\* C14: Log::read runs in a state where no append is half done, and returns
\* OffsetOutOfBounds when no complete append assigned the offset, the record
\* {offset, value} of the append that assigned it otherwise
C14_PreOrPostAppend ==
  [][\A t \in Tasks :
       (task[t].pc = "read" /\ task'[t].pc = "respond") =>
          /\ \A u \in Tasks : ~Appending(u)
          /\ task'[t].res = CompleteRead(hist, task[t].offset)]_vars

\* a consume whose request arrived before the append that assigns its offset
\* was complete has read the record, and the produce has answered
W_C14 ==
  \E t, u \in Tasks :
     /\ task[t].rpc = "consume" /\ task[t].pc = "respond" /\ task[t].res.kind = "Ok"
     /\ task[t].requested_at <= task[t].offset
     /\ task[u].rpc = "produce" /\ task[u].pc = "idle"
     /\ task[u].res.kind = "Ok" /\ task[u].res.offset = task[t].offset

\* the records a stream delivered to its client
Delivered(t) == SelectSeq(received[t], LAMBDA m : m.ok)

\* C15: the records consume_stream(start_offset) delivers are those at
\* start_offset, start_offset + 1, ... in this order, each once
C15_StreamInOrder ==
  \A t \in Tasks :
    task[t].rpc = "consume_stream" =>
      \A i \in 1..Len(Delivered(t)) : Delivered(t)[i].record.offset = task[t].offset + i - 1

\* the task has answered its request
Answered(t) == task[t].pc = "idle" /\ task[t].rpc \in {"produce", "consume"}

\* C16: a consume of an offset no segment contains is answered with not
\* found, a produce or consume that failed otherwise with unavailable
C16_NotFoundOrUnavailable ==
  \A t \in Tasks :
    (Answered(t) /\ task[t].res.kind = "Err") =>
       task[t].status = IF task[t].res.err = "OffsetOutOfBounds"
                        THEN "NotFound" ELSE "Unavailable"

\* C21: after new_segment(o) succeeded the last segment has the base offset
\* o, it is the active segment, and the segments before it are those the
\* Log had
C21_NewSegmentAtOffset ==
  (status = "open" /\ last.op = "new_segment" /\ last.res.kind = "Ok") =>
     /\ segments[Len(segments)].base_offset = last.arg
     /\ active_segment = Len(segments) - 1
     /\ Summary(SubSeq(segments, 1, Len(segments) - 1)) = last.pre

\* C22: read(p), with p the position an append of this Store returned,
\* returns the buffer of that append; read_at with a buffer of the same
\* length is filled with it
C22_StoreRoundTrip ==
  \A i \in 1..Len(calls) :
    (calls[i].op = "append" /\ got.arg = calls[i].appended_at) =>
       /\ got.op = "read" => got.res = Ok(0, calls[i].buffer)
       /\ (got.op = "read_at" /\ got.len = Len(calls[i].buffer)) =>
             got.res = Ok(0, calls[i].buffer)

\* the first of several appends was read while bytes were in the buffer, on
\* a store that was opened on a file with an entry
W_C22 ==
  /\ got.op = "read"
  /\ got.buffered > 0
  /\ calls[1].size_before > 0
  /\ Len(Appends(calls)) >= 2
  /\ got.arg = Appends(calls)[1].appended_at
  /\ got.res = Ok(0, <<1, 2, 3>>)

\* the sum of 8 + length over the first n appends
RECURSIVE SumWritten(_, _)
SumWritten(cs, n) ==
  IF n = 0 THEN 0 ELSE SumWritten(cs, n - 1) + LEN_WIDTH + Len(cs[n].buffer)

\* C23: every append returns appended_at = size() before it and
\* bytes_written = 8 + length; size() is the size at opening plus the sum of
\* 8 + length over the appends so far; the entries do not overlap
C23_StoreSizes ==
  LET as == Appends(calls)
      s0 == calls[1].size_before
  IN /\ \A i \in 1..Len(as) :
          /\ as[i].appended_at = as[i].size_before
          /\ as[i].bytes_written = LEN_WIDTH + Len(as[i].buffer)
          /\ as[i].size_after = s0 + SumWritten(as, i)
     /\ Store_size(store) = s0 + SumWritten(as, Len(as))
     /\ \A i \in 1..(Len(as) - 1) :
          as[i].appended_at + as[i].bytes_written <= as[i + 1].appended_at

\* three appends on a store that was opened on a file with an entry
W_C23 ==
  /\ calls[1].op = "new"
  /\ calls[1].size_before > 0
  /\ Len(Appends(calls)) = 3
  /\ Store_size(store) > calls[1].size_before + 3 * LEN_WIDTH

\* the step is a call of Index::write
IndexWriteStep ==
  /\ Len(calls') = Len(calls) + 1
  /\ calls'[Len(calls')].op = "write"

\* the 12 bytes of the entry
Entry(offset, position) ==
  to_be_bytes(offset, OFFSET_WIDTH) \o to_be_bytes(position, POSITION_WIDTH)

\* C24: write fails with IndexIsFull exactly when size + 12 exceeds the
\* length of the mapping, and then changes nothing; otherwise it writes the
\* entry at byte offset size and adds 12 to size; the size of an open Index
\* is a multiple of 12 and at most max_index_bytes
C24_IndexWrite ==
  [][/\ IndexWriteStep =>
          LET c == calls'[Len(calls')]
          IN IF index.size + ENTRY_WIDTH > index.mmap_len
             THEN c.kind = "IndexIsFull" /\ index' = index /\ files' = files
             ELSE /\ c.kind = "Ok"
                  /\ index'.size = index.size + ENTRY_WIDTH
                  /\ files'[1].index =
                        WriteAt(files[1].index, index.size, Entry(c.offset, c.position))
     /\ index'.is_open =>
          /\ index'.size % ENTRY_WIDTH = 0
          /\ index'.size <= cfg.max_index_bytes_per_segment]_vars

\* the writes to the index file that succeeded, in their order
Written(cs) == SelectSeq(cs, LAMBDA c : c.op = "write" /\ c.kind = "Ok")

\* C25: read(i) fails with OffsetOutOfBounds iff the index is empty or
\* i >= size / 12, and returns the position of the (i+1)-th successful write
\* otherwise
C25_IndexRead ==
  got.op = "read" =>
     IF index.size = 0 \/ got.arg >= index.size \div ENTRY_WIDTH
     THEN got.res = Err("IndexOffsetOutOfBounds", got.arg)
     ELSE /\ got.arg < Len(Written(calls))
          /\ got.res = Ok(Written(calls)[got.arg + 1].position, <<>>)

\* every Index that was opened on the file was closed, or is still open
AlwaysClosed == CallsOf(calls, "dropped") = <<>>

\* C26: when every Index on the file was closed after its writes, the closed
\* file is 12 * k bytes long for the k writes that succeeded, and an Index
\* opened on it has the size 12 * k, where its next entry goes, and reads
\* the position of every one of the k writes
C26_IndexCloseReopen ==
  AlwaysClosed =>
     LET k == Len(Written(calls))
     IN /\ ~index.is_open => Len(files[1].index) = ENTRY_WIDTH * k
        /\ (index.is_open /\ CallsOf(calls, "close") # <<>>) =>
              /\ index.size = ENTRY_WIDTH * k
              /\ \A i \in 0..(k - 1) :
                    Index_read(files[1].index, index, i) =
                       Ok(Written(calls)[i + 1].position, <<>>)

\* an Index was closed after a write, opened again, and has written its next
\* entry
W_C26 ==
  /\ AlwaysClosed
  /\ index.is_open
  /\ \E j \in 1..Len(calls) :
        /\ calls[j].op = "close"
        /\ \E i \in 1..(j - 1) : calls[i].op = "write" /\ calls[i].kind = "Ok"
        /\ \E i \in (j + 1)..Len(calls) : calls[i].op = "write" /\ calls[i].kind = "Ok"

\* C27: active_segment is the index of the last segment, and no append
\* indexes past the end of the segment list
C27_ActiveIsLast ==
  status = "open" =>
     /\ active_segment = Len(segments) - 1
     /\ last.res.kind # "Panic"

\* C28: every segment has next_offset = base_offset + the number of entries
\* of its index
C28_NextOffsetCountsEntries ==
  status = "open" =>
     \A k \in 1..Len(segments) :
        segments[k].next_offset = segments[k].base_offset + Index_len(segments[k])

\* C29: is_maxed() is true iff the store has max_store_bytes or more, or the
\* index holds max_index_bytes / 12 entries or more
C29_IsMaxed ==
  status = "open" =>
     \A k \in 1..Len(segments) :
        Segment_is_maxed(segments[k]) <=>
           \/ Store_size(segments[k]) >= segments[k].max_store_bytes
           \/ Index_len(segments[k]) >= segments[k].max_index_bytes \div ENTRY_WIDTH

\* C30: no append of the Log returns IndexIsFull
C30_NoIndexFull ==
  \A i \in 1..Len(hist) : hist[i].res.err # "IndexIsFull"

\* the step is an append of the Log in which Segment::append wrote an index entry
EntryWritten ==
  /\ status = "open"
  /\ nAppends' = nAppends + 1
  /\ active_segment < Len(segments)
  /\ Len(segments') >= active_segment + 1
  /\ segments'[active_segment + 1].size = segments[active_segment + 1].size + ENTRY_WIDTH

\* C31: the entry Segment::append writes is entry number i of the index for
\* the i entries the index holds, carries the relative offset i and the
\* position in the store where the record with the offset base_offset + i
\* begins
C31_DenseEntries ==
  [][EntryWritten =>
       LET seg == segments[active_segment + 1]
           i == Index_len(seg)
           bytes == StoreContents(files', segments'[active_segment + 1])
       IN /\ seg.size = ENTRY_WIDTH * i
          /\ Slice(files'[seg.fid].index, seg.size, seg.size + ENTRY_WIDTH) =
                Entry(i, Store_size(seg))
          /\ Store_read(bytes, Store_size(seg)).kind = "Ok"
          /\ Record_decode(Store_read(bytes, Store_size(seg)).value) =
                Ok(seg.base_offset + i, last'.value)]_vars

\* an append wrote the second entry of a segment: relative offset 1, at a
\* position after the first record
W_C31 ==
  /\ status = "open"
  /\ last.op = "append"
  /\ last.res.kind = "Ok"
  /\ \E a \in 1..Len(segments) :
       /\ segments[a].next_offset = last.res.offset + 1
       /\ Index_len(segments[a]) = 2
       /\ \E position \in 1..segments[a].file_size :
            Slice(files[segments[a].fid].index, ENTRY_WIDTH, 2 * ENTRY_WIDTH) =
              Entry(1, position)

\* a payload of the same size
SameSize(value) == [i \in 1..Len(value) |-> 0]

\* the Log after Log::append(value) on the Log st, with no other call
\* between: [dir, files, segments, active_segment, status, res]
AppendOnly(st, value) ==
  IF st.status # "open" THEN st
  ELSE IF st.active_segment >= Len(st.segments)
  THEN [st EXCEPT !.res = Append(@, Panic)]
  ELSE CHOOSE next \in
    { LET segs1 == [st.segments EXCEPT ![st.active_segment + 1] = a.seg]
      IN IF a.kind = "Fault"
         THEN [st EXCEPT !.status = "closed",
                         !.res = Append(@, [Panic EXCEPT !.kind = "Fault"])]
         ELSE IF a.kind = "IndexIsFull"
         THEN [st EXCEPT !.files = a.fs, !.segments = segs1,
                         !.res = Append(@, Err("IndexIsFull", 0))]
         ELSE IF Segment_is_maxed(a.seg)
         THEN CHOOSE rolled \in
                { [dir |-> n.dir, files |-> n.files,
                   segments |-> IF n.ok THEN Append(segs1, n.seg) ELSE segs1,
                   active_segment |-> IF n.ok THEN st.active_segment + 1
                                      ELSE st.active_segment,
                   status |-> st.status,
                   res |-> Append(st.res, IF n.ok THEN Ok(a.offset, <<>>)
                                          ELSE Err("Io", 0))]
                  : n \in { Segment_new(st.dir, a.fs, a.offset + 1,
                                        RolloverConfig(cfg).max_index_bytes,
                                        RolloverConfig(cfg).max_store_bytes) } } : TRUE
         ELSE [st EXCEPT !.files = a.fs, !.segments = segs1,
                         !.res = Append(@, Ok(a.offset, <<>>))]
      : a \in { Segment_append(st.files, st.segments[st.active_segment + 1], value) } }
    : TRUE

\* the Log that Log::new made in an empty directory, after the first n
\* appends of the run, each with a payload of the size of the run's payload,
\* and no read between them
RECURSIVE AppendsOnly(_)
AppendsOnly(n) ==
  IF n = 0
  THEN CHOOSE st \in
         { [dir |-> log.dir, files |-> log.files, segments |-> log.segments,
            active_segment |-> log.active_segment, status |-> "open", res |-> <<>>]
           : log \in { Log_new(EmptyDir, <<>>, cfg) } } : TRUE
  ELSE CHOOSE st \in
         { AppendOnly(prev, SameSize(hist[n].value)) : prev \in { AppendsOnly(n - 1) } }
         : TRUE

\* C32: the reads of a run change nothing of what the appends of the run
\* make: the segments, their base and next offsets, the files they have, the
\* active segment and the result of every append are the ones of the run
\* that has the same number of appends with payloads of the same sizes and
\* no read
C32_ReadsChangeNothing ==
  \E only \in { AppendsOnly(Len(hist)) } :
    /\ Len(segments) = Len(only.segments)
    /\ \A i \in 1..Len(segments) :
         /\ segments[i].base_offset = only.segments[i].base_offset
         /\ segments[i].next_offset = only.segments[i].next_offset
         /\ Store_size(segments[i]) = Store_size(only.segments[i])
         /\ Index_size(segments[i]) = Index_size(only.segments[i])
         /\ Len(StoreContents(files, segments[i])) =
              Len(StoreContents(only.files, only.segments[i]))
    /\ active_segment = only.active_segment
    /\ DOMAIN dir = DOMAIN only.dir
    /\ status = only.status
    /\ lowest_offset(segments) = lowest_offset(only.segments)
    /\ highest_offset(segments) = highest_offset(only.segments)
    /\ [i \in 1..Len(hist) |-> hist[i].res] = only.res

\* a read between two appends: the read wrote the buffer of the store to the
\* file, and the append after it got the next offset
W_C32 ==
  /\ status = "open"
  /\ Len(hist) >= 2
  /\ hist[Len(hist)].res.kind = "Ok"
  /\ \E i \in 1..Len(segments) :
       /\ segments[i].writer # <<>>
       /\ Len(files[segments[i].fid].store) > 0

\* the step is a truncate that removes at least one segment
Removes ==
  /\ status = "open"
  /\ nTruncates' = nTruncates + 1
  /\ EndIndex(segments, last'.arg) > 0

\* the steps of the first Segment::remove of the truncate are the steps of
\* Segment_remove
RemoveAsModelled ==
  [][Removes =>
       LET seg == segments[1]
           run == Segment_remove_steps(dir, files, seg)
           r == Segment_remove(dir, files, seg)
       IN /\ r.ok = run[Len(run)].ok
          /\ r.dir = run[Len(run)].dir
          /\ r.files = run[Len(run)].files]_vars

\* when remove returned Ok neither file of the segment is in the directory
RemovedFilesGone ==
  [][Removes =>
       LET seg == segments[1]
           run == Segment_remove_steps(dir, files, seg)
       IN run[Len(run)].ok => seg.base_offset \notin DOMAIN run[Len(run)].dir]_vars

\* C33: Segment.remove closes the index and the store while the files of the
\* segment are still in the directory and unlinks them after that; when it
\* returned Ok neither file exists; no step changes the length of a file of
\* the segment that is already unlinked
C33_CloseThenUnlink ==
  [][Removes =>
       LET seg == segments[1]
           run == Segment_remove_steps(dir, files, seg)
           Before(i) == IF i = 1 THEN [dir |-> dir, files |-> files] ELSE run[i - 1]
       IN /\ run[Len(run)].ok => seg.base_offset \notin DOMAIN run[Len(run)].dir
          /\ \A i \in 1..Len(run) :
               /\ run[i].step \in {"index.close", "store.close"} =>
                    seg.base_offset \in DOMAIN Before(i).dir
               /\ seg.base_offset \notin DOMAIN Before(i).dir =>
                    /\ Len(run[i].files[seg.fid].index) = Len(Before(i).files[seg.fid].index)
                    /\ Len(run[i].files[seg.fid].store) = Len(Before(i).files[seg.fid].store)]_vars

\* the step is a truncate of the Log
Truncates == status = "open" /\ nTruncates' = nTruncates + 1

\* the Log of the state as AppendOnly takes it
LogOf(d, fs, segs, active) ==
  [dir |-> d, files |-> fs, segments |-> segs, active_segment |-> active,
   status |-> "open", res |-> <<>>]

\* the segments after a truncate are segments of before, in their order
SurvivorsKept ==
  [][Truncates =>
       /\ Len(segments') >= 1
       /\ Len(segments') <= Len(segments)
       /\ segments' = SubSeq(segments, Len(segments) - Len(segments') + 1, Len(segments))
       /\ highest_offset(segments') = highest_offset(segments)
       /\ lowest_offset(segments') = segments'[1].base_offset]_vars

\* the offsets of the surviving segments read as before the truncate
SurvivorsRead ==
  [][Truncates =>
       \A o \in ReadArgs :
         FindSegment(segments', o) # 0 =>
           ReadResult(files', segments', o) = ReadResult(files, segments, o)]_vars

\* an append that would have succeeded before the truncate succeeds after
\* it, with the highest offset
AppendAfterTruncate ==
  [][Truncates =>
       \E was \in {AppendOnly(LogOf(dir, files, segments, active_segment), <<>>)} :
       \E is \in {AppendOnly(LogOf(dir', files', segments', active_segment'), <<>>)} :
         was.res[1].kind = "Ok" => is.res[1] = Ok(highest_offset(segments'), <<>>)]_vars

\* C34: a truncate leaves at least one segment; the segments it leaves keep
\* base_offset, next_offset and records, every offset in them reads as
\* before, highest_offset is the same, lowest_offset is the base offset of
\* the first segment left, and the append after it succeeds with the offset
\* highest_offset
C34_TruncateFrame ==
  [][Truncates =>
       /\ Len(segments') >= 1
       /\ Len(segments') <= Len(segments)
       /\ segments' = SubSeq(segments, Len(segments) - Len(segments') + 1, Len(segments))
       /\ highest_offset(segments') = highest_offset(segments)
       /\ lowest_offset(segments') = segments'[1].base_offset
       /\ \A o \in ReadArgs :
            FindSegment(segments', o) # 0 =>
              ReadResult(files', segments', o) = ReadResult(files, segments, o)
       /\ \E was \in {AppendOnly(LogOf(dir, files, segments, active_segment), <<>>)} :
          \E is \in {AppendOnly(LogOf(dir', files', segments', active_segment'), <<>>)} :
            was.res[1].kind = "Ok" => is.res[1] = Ok(highest_offset(segments'), <<>>)]_vars

\* the responses of the stream of task t, in the order they were sent
Responses(t) == received[t] \o chan[t]

\* the calls that got an offset, as [call, offset, value]: a produce that
\* answered Ok, and every request of a stream with an Ok response; the i-th
\* response of a stream is the answer to its i-th request
Returned ==
  { [call |-> <<t, 0>>, offset |-> task[t].res.offset, value |-> task[t].value] :
      t \in { u \in Tasks : /\ task[u].rpc = "produce"
                            /\ task[u].pc = "idle"
                            /\ task[u].status = "Ok" } }
  \cup
  UNION { { [call |-> <<t, i>>, offset |-> Responses(t)[i].record.offset,
             value |-> task[t].sent[i]] :
              i \in { j \in 1..Len(Responses(t)) : Responses(t)[j].ok } } :
          t \in { u \in Tasks : task[u].rpc = "produce_stream" } }

\* C35: the offsets that produce and produce_stream calls returned are
\* pairwise distinct; a stream has at most one response per request, its
\* responses are in the order of the requests and the offsets among them
\* increase; reading a returned offset gives the value of the call that got it
C35_DistinctOffsets ==
  /\ \A r, s \in Returned : r.call # s.call => r.offset # s.offset
  /\ \A i, j \in 1..Len(hist) :
       (i < j /\ hist[i].res.kind = "Ok" /\ hist[j].res.kind = "Ok") =>
          hist[i].res.offset < hist[j].res.offset
  /\ \A t \in Tasks :
       task[t].rpc = "produce_stream" =>
         /\ Len(Responses(t)) <= Len(task[t].sent)
         /\ Len(Responses(t)) >= Len(task[t].sent) - 1
         /\ \A i, j \in 1..Len(Responses(t)) :
              (i < j /\ Responses(t)[i].ok /\ Responses(t)[j].ok) =>
                 Responses(t)[i].record.offset < Responses(t)[j].record.offset
  /\ status = "open" =>
       \A r \in Returned :
         ReadResult(files, segments, r.offset) = Ok(r.offset, r.value)

\* a stream got an offset for its first request and a produce call got
\* another offset while the stream was open; both offsets read back
W_C35 ==
  \E t, u \in Tasks :
    /\ task[t].rpc = "produce_stream"
    /\ Len(task[t].sent) = 2
    /\ Len(Responses(t)) = 2
    /\ Responses(t)[1].ok
    /\ task[u].rpc = "produce"
    /\ task[u].pc = "idle"
    /\ task[u].status = "Ok"
    /\ task[u].res.offset > Responses(t)[1].record.offset
    /\ ReadResult(files, segments, task[u].res.offset).kind = "Ok"
====
